---- MODULE Spec2Model ----
(***************************************************************************)
(* ReserveMap: the Home page (Point Store, Filter State, city index and    *)
(* city search) and the Map component (marker update effect, cluster       *)
(* group), modelled from src/src/pages/Home.jsx and                        *)
(* src/src/components/Map.jsx.                                             *)
(*                                                                         *)
(* JavaScript strings are sequences of one-character strings; null and     *)
(* undefined references are the empty sequence of an option <<>> / <<v>>.  *)
(***************************************************************************)
EXTENDS Integers, Sequences, FiniteSets, TLC

\* ------------------------------------------------------------------ bounds
\* longest Point Store of the application specification
MaxStore == 2
\* longest hand-picked part of a Point Store of the index specification
MaxIndexStore == 3
\* longest hand-picked part of a Point Store of the search specification
MaxSearchStore == 2
\* number of one-restaurant cities put in front of a long Point Store
PadCities == 21
\* longest Point Store of the specification with the locate button
MaxLocateStore == 1
\* most rows the two CSV files of the ingestion specification hold together
MaxRows == 2

\* ------------------------------------------------------- program constants
\* Home.jsx:59  cities.slice(0, 15)
DEFAULT_LIMIT == 15
\* Home.jsx:76  matches.slice(0, 20)
QUERY_LIMIT == 20
\* Home.jsx:82  zoom: 12
CITY_ZOOM == 12
\* Map.jsx:64   zoom: 4
INITIAL_ZOOM == 4
\* Map.jsx:75   maxZoom: 19
MAX_ZOOM == 19
\* Map.jsx:81   maxClusterRadius: 50
maxClusterRadius == 50
\* Map.jsx:168  setView([latitude, longitude], 12)
LOCATE_ZOOM == 12

\* ------------------------------------------------------------ JS strings
\* the letters that have an upper-case form in the modelled alphabet
Lower(c) ==
  CASE c = "A" -> "a"
    [] c = "B" -> "b"
    [] c = "C" -> "c"
    [] OTHER -> c

IsWhiteSpace(c) == c \in {" ", "\t", "\n"}

\* String.prototype.toLowerCase
toLowerCase(s) == [i \in 1..Len(s) |-> Lower(s[i])]

\* String.prototype.includes
includes(s, q) ==
  \E i \in 0..(Len(s) - Len(q)) : SubSeq(s, i + 1, i + Len(q)) = q

\* String.prototype.startsWith
startsWith(s, q) == Len(q) <= Len(s) /\ SubSeq(s, 1, Len(q)) = q

\* String.prototype.trim
NoTrim(s) == s

trim(s) ==
  LET keep == {i \in 1..Len(s) : ~IsWhiteSpace(s[i])}
  IN  IF keep = {} THEN <<>>
      ELSE LET lo == CHOOSE i \in keep : \A j \in keep : i <= j
               hi == CHOOSE i \in keep : \A j \in keep : j <= i
           IN  SubSeq(s, lo, hi)

\* Array.prototype.slice(start, end) for 0 <= start <= end
TakeLast(arr, start, end) ==
  SubSeq(arr, IF end < Len(arr) THEN Len(arr) - end + 1 ELSE 1, Len(arr))

slice(arr, start, end) ==
  SubSeq(arr, start + 1, IF end < Len(arr) THEN end ELSE Len(arr))

\* the value of a JSON property that is absent
undefined == <<"#undefined">>

\* JS truthiness of a string-or-undefined value: if (city)
Truthy(v) == v # undefined /\ v # <<>>

\* Array.prototype.sort(cmp): stable (ECMAScript 2019), x goes behind the last
\* element it does not have to precede
InsertSorted(sorted, x, cmp(_, _)) ==
  LET notAfter == {j \in 1..Len(sorted) : cmp(sorted[j], x) <= 0}
      pos == IF notAfter = {} THEN 0
             ELSE CHOOSE j \in notAfter : \A k \in notAfter : k <= j
  IN  SubSeq(sorted, 1, pos) \o <<x>> \o SubSeq(sorted, pos + 1, Len(sorted))

\* (Len(next) >= 0 always holds: it has each step evaluated before the next)
SortBy(arr, cmp(_, _)) ==
  LET RECURSIVE sortFrom(_, _)
      sortFrom(sorted, i) ==
        IF i > Len(arr) THEN sorted
        ELSE LET next == InsertSorted(sorted, arr[i], cmp)
             IN  IF Len(next) >= 0 THEN sortFrom(next, i + 1) ELSE <<>>
  IN  sortFrom(<<>>, 1)

\* ------------------------------------------------- Map.jsx: marker update
\* Map.jsx:35-38  ICONS
ICONS == [amex |-> "#f59e0b", chase |-> "#3b82f6"]

\* Map.jsx:139-143  the callback of restaurants.filter
SwappedFlags(r, f) ==
  IF r.program = "amex" /\ ~f.chase THEN FALSE
  ELSE IF r.program = "chase" /\ ~f.amex THEN FALSE
  ELSE TRUE

KnownAndOn(r, f) ==
  (r.program = "amex" /\ f.amex) \/ (r.program = "chase" /\ f.chase)

keepsRestaurant(r, f) ==
  IF r.program = "amex" /\ ~f.amex THEN FALSE
  ELSE IF r.program = "chase" /\ ~f.chase THEN FALSE
  ELSE TRUE

\* Map.jsx:139-143  const filtered = restaurants.filter(...)
FilteredReversed(rs, f) ==
  LET kept == SelectSeq(rs, LAMBDA r : keepsRestaurant(r, f))
  IN  [i \in 1..Len(kept) |-> kept[Len(kept) + 1 - i]]

filtered(rs, f) == SelectSeq(rs, LAMBDA r : keepsRestaurant(r, f))

\* Map.jsx:147-152  one L.marker per restaurant, with its icon and popup
marker(restaurant) ==
  [latlng |-> <<restaurant.lat, restaurant.lon>>,
   icon |-> IF restaurant.program \in DOMAIN ICONS
            THEN ICONS[restaurant.program] ELSE ICONS.amex,
   popup |-> restaurant]

\* Map.jsx:146-153  const markers = filtered.map(...)
AllButLast(list) == [i \in 1..(Len(list) - 1) |-> marker(list[i])]

markers(list) == [i \in 1..Len(list) |-> marker(list[i])]

\* Map.jsx:136  clusterGroup.clearLayers()
KeepLayers(layers) == layers

clearLayers(layers) == <<>>

\* Map.jsx:155  clusterGroup.addLayers(markers)
addLayers(layers, ms) == layers \o ms

\* Map.jsx:136-155  the body of the marker update effect behind its guard
updateMarkers(layers, rs, f) ==
  addLayers(clearLayers(layers), markers(filtered(rs, f)))

\* ------------------------------------------------ the cluster group's nodes
\* screen position of a coordinate at a zoom level: 256 * 2^zoom pixels for
\* the 360 degrees of longitude (256 / 360 = 32 / 45)
project(latlng, zoom) ==
  <<(latlng[2] * (2 ^ zoom) * 32) \div 45,
    (latlng[1] * (2 ^ zoom) * 32) \div 45>>

Abs(x) == IF x < 0 THEN -x ELSE x

withinRadius(p, q) ==
  /\ Abs(p[1] - q[1]) <= maxClusterRadius
  /\ Abs(p[2] - q[2]) <= maxClusterRadius
  /\ (p[1] - q[1]) * (p[1] - q[1]) + (p[2] - q[2]) * (p[2] - q[2])
       <= maxClusterRadius * maxClusterRadius

\* the unclustered layers are taken in order; each opens a node and absorbs
\* every remaining layer within maxClusterRadius pixels of it
RECURSIVE clusterFrom(_, _, _)
clusterFrom(open, layers, zoom) ==
  IF open = {} THEN <<>>
  ELSE LET seed == CHOOSE i \in open : \A j \in open : i <= j
           members == {j \in open :
                         withinRadius(project(layers[seed].latlng, zoom),
                                      project(layers[j].latlng, zoom))}
       IN  <<[center |-> layers[seed].latlng,
              members |-> members,
              count |-> Cardinality(members)]>>
             \o clusterFrom(open \ members, layers, zoom)

cluster(layers, zoom) == clusterFrom(1..Len(layers), layers, zoom)

\* ------------------------------------------------- Home.jsx: city index
\* property names every object literal inherits from Object.prototype
ObjectPrototypeKeys ==
  { <<"c","o","n","s","t","r","u","c","t","o","r">>,
    <<"t","o","S","t","r","i","n","g">>,
    <<"v","a","l","u","e","O","f">>,
    <<"_","_","p","r","o","t","o","_","_">> }

DigitValue(c) ==
  CASE c = "0" -> 0 [] c = "1" -> 1 [] c = "2" -> 2 [] c = "3" -> 3
    [] c = "4" -> 4 [] c = "5" -> 5 [] c = "6" -> 6 [] c = "7" -> 7
    [] c = "8" -> 8 [] c = "9" -> 9 [] OTHER -> -1

\* a property name that is a canonical array index: Object.values lists
\* these first, in ascending numeric order (names of up to 9 digits)
IsArrayIndex(key) ==
  /\ Len(key) \in 1..9
  /\ \A i \in 1..Len(key) : DigitValue(key[i]) >= 0
  /\ (Len(key) = 1 \/ key[1] # "0")

ArrayIndexValue(key) ==
  LET f[i \in 0..Len(key)] ==
        IF i = 0 THEN 0 ELSE 10 * f[i - 1] + DigitValue(key[i])
  IN  f[Len(key)]

\* the index of the own property `key` of cityMap (own properties are kept
\* in insertion order), 0 when cityMap has no such own property
ownIndex(cityMap, key) ==
  IF \E k \in 1..Len(cityMap) : cityMap[k].name = key
  THEN CHOOSE k \in 1..Len(cityMap) : cityMap[k].name = key
  ELSE 0

\* Home.jsx:48  cityMap[city] is truthy: an own aggregate, or a property
\* inherited from Object.prototype
hasCity(cityMap, key) ==
  ownIndex(cityMap, key) # 0 \/ key \in ObjectPrototypeKeys

\* Home.jsx:49  the aggregate created for the first restaurant of a city
newCity(r) ==
  [name |-> r.city, count |-> 0, lat |-> r.lat, lon |-> r.lon,
   state |-> r.state]

\* Home.jsx:45-53  the callback of restaurants.forEach
LastCoordinate(cityMap, r) ==
  IF ~Truthy(r.city) THEN cityMap
  ELSE LET created == IF ~hasCity(cityMap, r.city)
                      THEN Append(cityMap, newCity(r)) ELSE cityMap
           k == ownIndex(created, r.city)
       IN  IF k = 0 THEN created
           ELSE [created EXCEPT ![k].count = @ + 1,
                                ![k].lat = r.lat, ![k].lon = r.lon]

addRestaurant(cityMap, r) ==
  IF ~Truthy(r.city) THEN cityMap
  ELSE LET created == IF ~hasCity(cityMap, r.city)
                      THEN Append(cityMap, newCity(r)) ELSE cityMap
           k == ownIndex(created, r.city)
       IN  IF k = 0 THEN created
           ELSE [created EXCEPT ![k].count = @ + 1]

\* Home.jsx:45-53  restaurants.forEach, from the i-th restaurant on
\* (Len(next) >= 0 always holds: it has each step evaluated before the next)
RECURSIVE forEachFrom(_, _, _)
forEachFrom(cityMap, rs, i) ==
  IF i > Len(rs) THEN cityMap
  ELSE LET next == addRestaurant(cityMap, rs[i])
       IN  IF Len(next) >= 0 THEN forEachFrom(next, rs, i + 1) ELSE <<>>

\* Home.jsx:44-53  cityMap after the forEach
buildCityMap(rs) == forEachFrom(<<>>, rs, 1)

\* Home.jsx:54  Object.values(cityMap)
ObjectValues(cityMap) ==
  LET isIndex(c) == IsArrayIndex(c.name)
      byValue(a, b) == ArrayIndexValue(a.name) - ArrayIndexValue(b.name)
  IN  SortBy(SelectSeq(cityMap, isIndex), byValue)
        \o SelectSeq(cityMap, LAMBDA c : ~isIndex(c))

\* Home.jsx:54  (a, b) => b.count - a.count
AscendingCount(a, b) == a.count - b.count

compareCount(a, b) == b.count - a.count

\* Home.jsx:43-55  const cities = useMemo(...)
citiesMemo(rs) == SortBy(ObjectValues(buildCityMap(rs)), compareCount)

\* ------------------------------------------------ Home.jsx: city search
\* Home.jsx:61  the callback of cities.filter
NameEqualsQuery(c, query) == toLowerCase(c.name) = query

matchesQuery(c, query) == includes(toLowerCase(c.name), query)

\* Home.jsx:63-75  the comparator of matches.sort
PrefixBeforeExact(a, b, query) ==
  LET aName == toLowerCase(a.name)
      bName == toLowerCase(b.name)
      aStarts == startsWith(aName, query)
      bStarts == startsWith(bName, query)
  IN  IF aStarts /\ ~bStarts THEN -1
      ELSE IF bStarts /\ ~aStarts THEN 1
      ELSE b.count - a.count

compareMatches(a, b, query) ==
  LET aName == toLowerCase(a.name)
      bName == toLowerCase(b.name)
      aExact == aName = query
      bExact == bName = query
      aStarts == startsWith(aName, query)
      bStarts == startsWith(bName, query)
  IN  IF aExact /\ ~bExact THEN -1
      ELSE IF bExact /\ ~aExact THEN 1
      ELSE IF aStarts /\ ~bStarts THEN -1
      ELSE IF bStarts /\ ~aStarts THEN 1
      ELSE b.count - a.count

\* Home.jsx:60-75  matches, filtered and sorted, before the truncation
rankedMatches(cs, q) ==
  LET query == toLowerCase(q)
  IN  SortBy(SelectSeq(cs, LAMBDA c : matchesQuery(c, query)),
             LAMBDA a, b : compareMatches(a, b, query))

\* Home.jsx:58-77  const filteredCities = useMemo(...)
filteredCitiesMemo(cs, q) ==
  IF trim(q) = <<>> THEN slice(cs, 0, DEFAULT_LIMIT)
  ELSE slice(rankedMatches(cs, q), 0, QUERY_LIMIT)

\* -------------------------------------------- scripts/convert-data.js
\* a JS number of the script: <<n>> for the whole number n, <<>> for NaN
NaN == <<>>

\* parseFloat on the modelled strings, which have no fraction and no
\* exponent: white space in front is skipped, then an optional sign and the
\* longest run of digits are read, whatever follows; NaN without a digit
parseFloat(s) ==
  LET blanks == {i \in 0..Len(s) : \A j \in 1..i : IsWhiteSpace(s[j])}
      skip == CHOOSE i \in blanks : \A j \in blanks : j <= i
      t == SubSeq(s, skip + 1, Len(s))
      signed == t # <<>> /\ t[1] \in {"-", "+"}
      body == IF signed THEN Tail(t) ELSE t
      runs == {n \in 0..Len(body) : \A j \in 1..n : DigitValue(body[j]) >= 0}
      n == CHOOSE k \in runs : \A j \in runs : j <= k
      value[i \in 0..n] ==
        IF i = 0 THEN 0 ELSE 10 * value[i - 1] + DigitValue(body[i])
  IN  IF n = 0 THEN NaN
      ELSE IF signed /\ t[1] = "-" THEN <<-value[n]>> ELSE <<value[n]>>

isNaN(v) == v = NaN

\* JS truthiness of a number: NaN and 0 are falsy
TruthyNumber(v) == v # NaN /\ v[1] # 0

\* a || b for two strings: the empty string is falsy
or(a, b) == IF a # <<>> THEN a ELSE b

null == <<"#null">>

\* convert-data.js:55-65  the record made of a row of the Chase file (the
\* address, cuisine, neighborhood and website are left out: nothing reads
\* them but the popup)
chaseRecord(row) ==
  [name |-> or(row.name, row.google_name), program |-> "chase",
   city |-> row.city, state |-> undefined,
   lat |-> parseFloat(row.lat), lon |-> parseFloat(row.lon)]

\* convert-data.js:65  the callback of .filter
keepsChase(r) ==
  /\ TruthyNumber(r.lat)
  /\ TruthyNumber(r.lon)
  /\ ~isNaN(r.lat)
  /\ ~isNaN(r.lon)
  /\ r.name # <<>>

\* convert-data.js:55-65  chaseData
chaseData(rows) ==
  SelectSeq([i \in 1..Len(rows) |-> chaseRecord(rows[i])], keepsChase)

\* convert-data.js:72-81  the record made of a row of the Amex file
gdaRecord(row) ==
  [name |-> or(row.name, row.google_name), program |-> "amex",
   city |-> row.city, state |-> or(row.state, null),
   lat |-> parseFloat(row.lat), lon |-> parseFloat(row.lon)]

\* convert-data.js:81  the callback of .filter
keepsGda(r) ==
  /\ TruthyNumber(r.lat)
  /\ TruthyNumber(r.lon)
  /\ ~isNaN(r.lat)
  /\ ~isNaN(r.lon)

\* convert-data.js:72-81  gdaData
gdaData(rows) ==
  SelectSeq([i \in 1..Len(rows) |-> gdaRecord(rows[i])], keepsGda)

\* convert-data.js:84  allData
allData(chase, gda) == chaseData(chase) \o gdaData(gda)

\* convert-data.js:99, Home.jsx:20  JSON.stringify writes a number that is
\* not NaN as its digits and res.json() reads them back as that number; a
\* string comes back as it is and an absent property stays absent
jsonRecord(r) == [r EXCEPT !.lat = r.lat[1], !.lon = r.lon[1]]

\* ------------------------------------------------------------- the data
\* the content of /data/restaurants.json: records of the two programs of
\* scripts/convert-data.js and of a program the page has no toggle for
Programs == {"amex", "chase", "visa"}

Coords == {<<40, -74>>, <<34, -118>>}

\* convert-data.js:55-81  a record; only the Amex records carry a state
Entity(program, city, coord) ==
  [name |-> <<"R">>, program |-> program, city |-> city,
   state |-> IF program = "amex" THEN <<"N", "Y">> ELSE undefined,
   lat |-> coord[1], lon |-> coord[2]]

BoundedSeq(S, n) == UNION {[1..k -> S] : k \in 0..n}

\* JSON.parse makes one object per record: ref is the object's identity
WithRefs(records) ==
  [i \in 1..Len(records) |-> [ref |-> i] @@ records[i]]

\* the places of the application specification: a city and its coordinate
AppPlaces == {<<<<"A", "b">>, <<40, -74>>>>, <<<<"b">>, <<34, -118>>>>}

AppEntities == {Entity(p, pl[1], pl[2]) : p \in Programs, pl \in AppPlaces}

AppStores == {WithRefs(s) : s \in BoundedSeq(AppEntities, MaxStore)}

AppQueries == {<<>>, <<"a">>, <<"B">>}

LocateStores == {WithRefs(s) : s \in BoundedSeq(AppEntities, MaxLocateStore)}

\* what the two CSV files of the scraper hold, as parseCSV returns it: the
\* names and the coordinates of a row
NamePairs == {<<<<"R">>, <<>>>>, <<<<>>, <<"G">>>>, <<<<>>, <<>>>>}

CoordStrings ==
  { <<<<"4", "0">>, <<"-", "7", "4">>>>,
    <<<<"9", "5">>, <<"-", "7", "4">>>>,
    <<<<"0">>, <<"-", "7", "4">>>>,
    <<<<>>, <<"-", "7", "4">>>>,
    <<<<"4", "0">>, <<"1", "8", "1">>>>,
    <<<<"4", "0">>, <<"x">>>> }

CsvRows ==
  {[name |-> n[1], google_name |-> n[2], city |-> <<"b">>, state |-> <<>>,
    lat |-> xy[1], lon |-> xy[2]] : n \in NamePairs, xy \in CoordStrings}

\* the Chase rows and the Amex rows, MaxRows of them at most
CsvFiles ==
  UNION {{<<c, g>> : c \in [1..j -> CsvRows], g \in [1..(k - j) -> CsvRows]} :
           <<k, j>> \in {kj \in (0..MaxRows) \X (0..MaxRows) : kj[2] <= kj[1]}}

\* positions the browser reports to getCurrentPosition's success callback
GeoPositions == {<<41, -88>>, <<48, 2>>}

\* city values of the index specification: empty, absent, two names, a name
\* Object.prototype has, and two names that are array indices
IndexCities ==
  {<<>>, undefined, <<"A", "b">>, <<"b">>,
   <<"c","o","n","s","t","r","u","c","t","o","r">>, <<"1">>, <<"1", "2">>}

IndexEntities == {Entity("chase", c, xy) : c \in IndexCities, xy \in Coords}

IndexStores == {WithRefs(s) : s \in BoundedSeq(IndexEntities, MaxIndexStore)}

\* city values of the search specification; "aab" is also one of the
\* one-restaurant cities below
SearchCities ==
  {<<"A", "b">>, <<"A", "B">>, <<"a", "b", "c">>, <<"a", "a", "b">>}

SearchEntities == {Entity("chase", c, <<40, -74>>) : c \in SearchCities}

PadLetters == <<"b", "a", "d", "e", "f">>

\* the i-th of the one-restaurant cities in front of a long Point Store
PadName(i) ==
  <<"a", PadLetters[((i - 1) \div 5) + 1], PadLetters[((i - 1) % 5) + 1]>>

Pad(k) == [i \in 1..k |-> Entity("amex", PadName(i), <<34, -118>>)]

SearchStores ==
  {WithRefs(Pad(k) \o s) :
     k \in {0, PadCities}, s \in BoundedSeq(SearchEntities, MaxSearchStore)}

SearchQueries == {<<>>, <<" ">>, <<"a">>, <<"a", "B">>, <<" ", "a">>}

\* ------------------------------------------------------------ the state
VARIABLES
  response,           \* the records /data/restaurants.json holds
  fetch,              \* Home.jsx:19 the request: pending, resolved, rejected
  restaurants,        \* Home.jsx:5   the Point Store
  loading,            \* Home.jsx:6
  filters,            \* Home.jsx:7   Filter State
  searchQuery,        \* Home.jsx:11
  showSearchResults,  \* Home.jsx:12
  flyToLocation,      \* Home.jsx:13  <<>> for null, <<target>> otherwise
  cities,             \* Home.jsx:43  the memoised city index
  filteredCities,     \* Home.jsx:58  the memoised search result
  mounted,            \* Home.jsx:204-218  the Map component is rendered
  mapInstanceRef,     \* Map.jsx:42   "null" or "map"
  clusterGroupRef,    \* Map.jsx:43   "null" or "clusterGroup"
  clusterLayers,      \* the markers the cluster group holds
  mapView,            \* the center and zoom the map was last sent to
  effects,            \* the effects of Map that React has still to run
  isLocating,         \* Map.jsx:45
  locationError,      \* Map.jsx:46   <<>> for null, <<message>> otherwise
  userMarkerRef,      \* Map.jsx:44   <<>> for null, <<latlng>> of the marker
  geolocation,        \* getCurrentPosition requests whose callback is due
  userLayers,         \* Map.jsx:190-192  the user markers added to the map
  flyToCall,          \* Map.jsx:51  the flyTo call of the step just taken
  unmounted,          \* the router has taken Home, and Map with it, away
  uncaught,           \* a callback has thrown a TypeError nothing catches
  chaseRows,          \* convert-data.js:55  the rows parseCSV returns
  gdaRows,            \* convert-data.js:72  the rows parseCSV returns
  generated           \* convert-data.js:97-100  restaurants.json is written

vars ==
  <<response, fetch, restaurants, loading, filters, searchQuery,
    showSearchResults, flyToLocation, cities, filteredCities, mounted,
    mapInstanceRef, clusterGroupRef, clusterLayers, mapView, effects,
    isLocating, locationError, userMarkerRef, geolocation, userLayers,
    flyToCall, unmounted, uncaught, chaseRows, gdaRows, generated>>

homeVars ==
  <<restaurants, loading, filters, searchQuery, showSearchResults,
    flyToLocation, cities, filteredCities>>

mapVars == <<mapInstanceRef, clusterGroupRef, clusterLayers, mapView>>

locateVars ==
  <<isLocating, locationError, userMarkerRef, geolocation, userLayers>>

lifeVars == <<unmounted, uncaught>>

scriptVars == <<chaseRows, gdaRows, generated>>

\* Home.jsx:5-13, Map.jsx:41-46  the first render of Home
HomeInit ==
  /\ fetch = "pending"
  /\ restaurants = <<>>
  /\ loading = TRUE
  /\ filters = [amex |-> TRUE, chase |-> TRUE]
  /\ searchQuery = <<>>
  /\ showSearchResults = FALSE
  /\ flyToLocation = <<>>
  /\ cities = citiesMemo(<<>>)
  /\ filteredCities = filteredCitiesMemo(citiesMemo(<<>>), <<>>)
  /\ mounted = FALSE
  /\ mapInstanceRef = "null"
  /\ clusterGroupRef = "null"
  /\ clusterLayers = <<>>
  /\ mapView = <<>>
  /\ effects = <<>>
  /\ isLocating = FALSE
  /\ locationError = <<>>
  /\ userLayers = <<>>
  /\ flyToCall = <<>>
  /\ unmounted = FALSE
  /\ uncaught = FALSE
  /\ userMarkerRef = <<>>
  /\ geolocation = 0

\* the page over a restaurants.json that convert-data.js wrote earlier
InitWith(stores) ==
  /\ response \in stores
  /\ chaseRows = <<>>
  /\ gdaRows = <<>>
  /\ generated = TRUE
  /\ HomeInit

Init == InitWith(AppStores)

\* ------------------------------------------------------------ rendering
\* Home.jsx:43-77  a render of Home: useMemo recomputes cities when
\* restaurants changed, and filteredCities when cities or searchQuery changed
Render ==
  /\ cities' = IF restaurants' = restaurants THEN cities
               ELSE citiesMemo(restaurants')
  /\ filteredCities' =
       IF restaurants' = restaurants /\ searchQuery' = searchQuery
       THEN filteredCities
       ELSE filteredCitiesMemo(cities', searchQuery')

\* Home.jsx:204-218, Map.jsx:49-156  the effects of Map a render of Home
\* schedules: all three, in source order, when Map mounts; afterwards the
\* fly-to effect (onFlyComplete is a new function at every render) and, when
\* restaurants or filters changed, the marker update effect
CommitMarkersFirst(markersChanged) ==
  /\ mounted' = ~loading'
  /\ effects' =
       IF loading' THEN effects
       ELSE IF ~mounted THEN effects \o <<"fly", "markers", "init">>
       ELSE IF markersChanged THEN effects \o <<"fly", "markers">>
       ELSE effects \o <<"fly">>

Commit(markersChanged) ==
  /\ mounted' = ~loading'
  /\ effects' =
       IF loading' THEN effects
       ELSE IF ~mounted THEN effects \o <<"fly", "init", "markers">>
       ELSE IF markersChanged THEN effects \o <<"fly", "markers">>
       ELSE effects \o <<"fly">>

\* ------------------------------------------------------ Home.jsx: events
\* Home.jsx:21-24  the fetch resolves with the records of the file
LoadResolve ==
  /\ ~unmounted
  /\ fetch = "pending"
  /\ generated
  /\ effects = <<>>
  /\ fetch' = "resolved"
  /\ restaurants' = response
  /\ loading' = FALSE
  /\ UNCHANGED <<response, filters, searchQuery, showSearchResults,
                 flyToLocation, mapVars>>
  /\ UNCHANGED <<locateVars, scriptVars, lifeVars>>
  /\ flyToCall' = <<>>
  /\ Render
  /\ Commit(TRUE)

\* Home.jsx:25-28  the fetch, or the parsing of its body, fails
LoadRejectStaysLoading ==
  /\ ~unmounted
  /\ fetch = "pending"
  /\ effects = <<>>
  /\ fetch' = "rejected"
  /\ UNCHANGED <<response, restaurants, loading, filters, searchQuery,
                 showSearchResults, flyToLocation, mapVars>>
  /\ UNCHANGED <<locateVars, scriptVars, lifeVars>>
  /\ flyToCall' = <<>>
  /\ Render
  /\ Commit(TRUE)

LoadReject ==
  /\ ~unmounted
  /\ fetch = "pending"
  /\ effects = <<>>
  /\ fetch' = "rejected"
  /\ loading' = FALSE
  /\ UNCHANGED <<response, restaurants, filters, searchQuery,
                 showSearchResults, flyToLocation, mapVars>>
  /\ UNCHANGED <<locateVars, scriptVars, lifeVars>>
  /\ flyToCall' = <<>>
  /\ Render
  /\ Commit(TRUE)

\* Home.jsx:164, 178  the updaters f => ({ ...f, amex: !f.amex }) and
\* f => ({ ...f, chase: !f.chase })
HideProgram(f, program) == [f EXCEPT ![program] = FALSE]

toggle(f, program) == [f EXCEPT ![program] = ~@]

\* Home.jsx:193-198  the callback of the filter behind the count
countsRestaurant(r, f) ==
  (r.program = "amex" /\ f.amex) \/ (r.program = "chase" /\ f.chase)

\* Home.jsx:193-198  the number in front of "restaurants"
visibleCount(rs, f) == Len(SelectSeq(rs, LAMBDA r : countsRestaurant(r, f)))

\* Home.jsx:163-178  a click on the button of a program
Toggle(program) ==
  /\ ~unmounted
  /\ effects = <<>>
  /\ filters' = toggle(filters, program)
  /\ UNCHANGED <<response, fetch, restaurants, loading, searchQuery,
                 showSearchResults, flyToLocation, mapVars>>
  /\ UNCHANGED <<locateVars, scriptVars, lifeVars>>
  /\ flyToCall' = <<>>
  /\ Render
  /\ Commit(TRUE)

\* Home.jsx:134-137  onChange of the search input
TypeQuery(q) ==
  /\ ~unmounted
  /\ effects = <<>>
  /\ q # searchQuery
  /\ searchQuery' = q
  /\ showSearchResults' = TRUE
  /\ UNCHANGED <<response, fetch, restaurants, loading, filters,
                 flyToLocation, mapVars>>
  /\ UNCHANGED <<locateVars, scriptVars, lifeVars>>
  /\ flyToCall' = <<>>
  /\ Render
  /\ Commit(FALSE)

\* Home.jsx:138  onFocus of the search input
FocusSearch ==
  /\ ~unmounted
  /\ effects = <<>>
  /\ ~showSearchResults
  /\ showSearchResults' = TRUE
  /\ UNCHANGED <<response, fetch, restaurants, loading, filters, searchQuery,
                 flyToLocation, mapVars>>
  /\ UNCHANGED <<locateVars, scriptVars, lifeVars>>
  /\ flyToCall' = <<>>
  /\ Render
  /\ Commit(FALSE)

\* Home.jsx:33-37  a mouse press outside the search box
ClickOutside ==
  /\ ~unmounted
  /\ effects = <<>>
  /\ showSearchResults
  /\ showSearchResults' = FALSE
  /\ UNCHANGED <<response, fetch, restaurants, loading, filters, searchQuery,
                 flyToLocation, mapVars>>
  /\ UNCHANGED <<locateVars, scriptVars, lifeVars>>
  /\ flyToCall' = <<>>
  /\ Render
  /\ Commit(FALSE)

\* Home.jsx:82  the target handed to setFlyToLocation
SwappedTarget(city) == [lat |-> city.lon, lon |-> city.lat, zoom |-> CITY_ZOOM]

viewportTarget(city) == [lat |-> city.lat, lon |-> city.lon, zoom |-> CITY_ZOOM]

\* Home.jsx:79-83, 145-157  a click on the i-th row of the dropdown
handleCitySelectResets(i) ==
  /\ ~unmounted
  /\ effects = <<>>
  /\ showSearchResults
  /\ i \in 1..Len(filteredCities)
  /\ searchQuery' = filteredCities[i].name
  /\ showSearchResults' = FALSE
  /\ flyToLocation' = <<viewportTarget(filteredCities[i])>>
  /\ filters' = [amex |-> TRUE, chase |-> TRUE]
  /\ UNCHANGED <<response, fetch, restaurants, loading, mapVars>>
  /\ UNCHANGED <<locateVars, scriptVars, lifeVars>>
  /\ flyToCall' = <<>>
  /\ Render
  /\ Commit(TRUE)

handleCitySelect(i) ==
  /\ ~unmounted
  /\ effects = <<>>
  /\ showSearchResults
  /\ i \in 1..Len(filteredCities)
  /\ searchQuery' = filteredCities[i].name
  /\ showSearchResults' = FALSE
  /\ flyToLocation' = <<viewportTarget(filteredCities[i])>>
  /\ UNCHANGED <<response, fetch, restaurants, loading, filters, mapVars>>
  /\ UNCHANGED <<locateVars, scriptVars, lifeVars>>
  /\ flyToCall' = <<>>
  /\ Render
  /\ Commit(FALSE)

\* ------------------------------------------------------ Map.jsx: effects
\* Map.jsx:51  flyTo([lat, lon], zoom || 12, { duration: 1.5 })
flyTo(target) ==
  [center |-> <<target.lat, target.lon>>,
   zoom |-> IF target.zoom # 0 THEN target.zoom ELSE CITY_ZOOM]

\* Home.jsx:216  onFlyComplete={() => setFlyToLocation(null)}
KeepsTarget == flyToLocation

onFlyComplete == <<>>

\* Map.jsx:49-55  the fly-to effect; onFlyComplete sets flyToLocation to null
\* and Home renders again
flyEffect ==
  IF flyToLocation = <<>> \/ mapInstanceRef = "null"
  THEN /\ UNCHANGED <<homeVars, mapVars, mounted>>
       /\ flyToCall' = <<>>
       /\ effects' = Tail(effects)
  ELSE /\ mapView' = flyTo(flyToLocation[1])
       /\ flyToCall' = <<flyTo(flyToLocation[1])>>
       /\ flyToLocation' = onFlyComplete
       /\ UNCHANGED <<restaurants, loading, filters, searchQuery,
                      showSearchResults, cities, filteredCities, mounted,
                      mapInstanceRef, clusterGroupRef, clusterLayers>>
       /\ effects' = Tail(effects) \o <<"fly">>

\* Map.jsx:58-127  the initialisation effect (39.8283, -98.5795 in whole degrees)
initEffect ==
  /\ IF mapInstanceRef # "null"
     THEN UNCHANGED mapVars
     ELSE /\ mapInstanceRef' = "map"
          /\ clusterGroupRef' = "clusterGroup"
          /\ clusterLayers' = <<>>
          /\ mapView' = [center |-> <<40, -99>>, zoom |-> INITIAL_ZOOM]
  /\ UNCHANGED <<homeVars, mounted>>
  /\ flyToCall' = <<>>
  /\ effects' = Tail(effects)

\* Map.jsx:130-156  the marker update effect
markerEffectKeepsFiltered ==
  /\ IF mapInstanceRef = "null" \/ clusterGroupRef = "null"
     THEN UNCHANGED <<clusterLayers, restaurants>>
     ELSE /\ clusterLayers' = updateMarkers(clusterLayers, restaurants, filters)
          /\ restaurants' = filtered(restaurants, filters)
  /\ UNCHANGED <<loading, filters, searchQuery, showSearchResults,
                 flyToLocation, cities, filteredCities, mounted,
                 mapInstanceRef, clusterGroupRef, mapView>>
  /\ flyToCall' = <<>>
  /\ effects' = Tail(effects)

markerEffect ==
  /\ IF mapInstanceRef = "null" \/ clusterGroupRef = "null"
     THEN UNCHANGED clusterLayers
     ELSE clusterLayers' = updateMarkers(clusterLayers, restaurants, filters)
  /\ UNCHANGED <<homeVars, mounted, mapInstanceRef, clusterGroupRef, mapView>>
  /\ flyToCall' = <<>>
  /\ effects' = Tail(effects)

\* React runs the scheduled effects in order, before the next event
RunEffect ==
  /\ effects # <<>>
  /\ UNCHANGED <<response, fetch, locateVars, scriptVars, lifeVars>>
  /\ CASE Head(effects) = "fly" -> flyEffect
       [] Head(effects) = "init" -> initEffect
       [] OTHER -> markerEffect

\* ------------------------------------------------ Map.jsx: locate button
\* Map.jsx:213  disabled={isLocating}
NeverDisabled == FALSE

locateDisabled == isLocating

\* Map.jsx:159-165, 211-213  a click on the locate button
handleLocate ==
  /\ ~unmounted
  /\ effects = <<>>
  /\ mounted
  /\ ~locateDisabled
  /\ IF mapInstanceRef = "null"
     THEN UNCHANGED locateVars
     ELSE /\ isLocating' = TRUE
          /\ locationError' = <<>>
          /\ geolocation' = geolocation + 1
          /\ UNCHANGED <<userMarkerRef, userLayers>>
  /\ flyToCall' = <<>>
  /\ UNCHANGED <<response, fetch, homeVars, mounted, mapVars, effects,
                 scriptVars, lifeVars>>

\* Map.jsx:171-173  if (userMarkerRef.current) userMarkerRef.current.remove()
KeepsOldMarker(layers, ref) == layers

removeMarker(layers, ref) ==
  IF ref = <<>> THEN layers ELSE SelectSeq(layers, LAMBDA l : l # ref[1])

\* Map.jsx:166-196  the success callback of getCurrentPosition; on a map
\* reference that is null line 168 throws before anything is set
locateSuccess(position) ==
  /\ effects = <<>>
  /\ geolocation > 0
  /\ geolocation' = geolocation - 1
  /\ IF mapInstanceRef = "null"
     THEN /\ uncaught' = TRUE
          /\ UNCHANGED <<mapView, userMarkerRef, userLayers, isLocating>>
     ELSE /\ mapView' = [center |-> position, zoom |-> LOCATE_ZOOM]
          /\ userLayers' = Append(removeMarker(userLayers, userMarkerRef), position)
          /\ userMarkerRef' = <<position>>
          /\ isLocating' = FALSE
          /\ UNCHANGED uncaught
  /\ flyToCall' = <<>>
  /\ UNCHANGED <<response, fetch, homeVars, mounted, mapInstanceRef,
                 clusterGroupRef, clusterLayers, effects, locationError,
                 unmounted, scriptVars>>

\* Map.jsx:197-201  the error callback of getCurrentPosition
locateError ==
  /\ effects = <<>>
  /\ geolocation > 0
  /\ geolocation' = geolocation - 1
  /\ IF unmounted
     THEN UNCHANGED <<isLocating, locationError>>
     ELSE /\ isLocating' = FALSE
          /\ locationError' = <<"Unable to get your location">>
  /\ flyToCall' = <<>>
  /\ UNCHANGED <<response, fetch, homeVars, mounted, mapVars, effects,
                 userMarkerRef, userLayers, scriptVars, lifeVars>>

\* Map.jsx:122-126  Home leaves the page (a Link of the header) and React
\* runs the cleanup of the initialisation effect: the map is removed with
\* its layers and the two references are set to null
Unmount ==
  /\ ~unmounted
  /\ effects = <<>>
  /\ unmounted' = TRUE
  /\ mounted' = FALSE
  /\ IF mapInstanceRef = "null"
     THEN UNCHANGED <<mapVars, userLayers>>
     ELSE /\ mapInstanceRef' = "null"
          /\ clusterGroupRef' = "null"
          /\ clusterLayers' = <<>>
          /\ userLayers' = <<>>
          /\ mapView' = <<>>
  /\ flyToCall' = <<>>
  /\ UNCHANGED <<response, fetch, homeVars, effects, isLocating,
                 locationError, userMarkerRef, geolocation, uncaught,
                 scriptVars>>

Next ==
  \/ LoadResolve
  \/ LoadReject
  \/ \E program \in {"amex", "chase"} : Toggle(program)
  \/ \E q \in AppQueries : TypeQuery(q)
  \/ FocusSearch
  \/ ClickOutside
  \/ \E i \in 1..QUERY_LIMIT : handleCitySelect(i)
  \/ RunEffect

Spec == Init /\ [][Next]_vars

\* the page with its locate button, over short Point Stores
InitLocate == InitWith(LocateStores)

NextLocate ==
  \/ LoadResolve
  \/ LoadReject
  \/ \E program \in {"amex", "chase"} : Toggle(program)
  \/ \E q \in AppQueries : TypeQuery(q)
  \/ FocusSearch
  \/ ClickOutside
  \/ \E i \in 1..QUERY_LIMIT : handleCitySelect(i)
  \/ RunEffect
  \/ handleLocate
  \/ \E position \in GeoPositions : locateSuccess(position)
  \/ locateError

SpecLocate == InitLocate /\ [][NextLocate]_vars

\* the same page, the fetch settling at some time: the browser resolves or
\* rejects the promise of Home.jsx:19
SpecLoad ==
  InitLocate /\ [][NextLocate]_vars /\ WF_vars(LoadReject \/ LoadResolve)

\* the page, its locate button and the navigation away from it
NextUnmount ==
  \/ NextLocate
  \/ Unmount

SpecUnmount == InitLocate /\ [][NextUnmount]_vars

\* convert-data.js:50-100  a run of the script: restaurants.json is written
convertData ==
  /\ ~generated
  /\ generated' = TRUE
  /\ response' =
       LET data == allData(chaseRows, gdaRows)
       IN  WithRefs([i \in 1..Len(data) |-> jsonRecord(data[i])])
  /\ flyToCall' = <<>>
  /\ UNCHANGED <<fetch, homeVars, mounted, mapVars, effects, locateVars,
                 lifeVars, chaseRows, gdaRows>>

\* the script and the page that loads what it wrote; a fetch before the
\* file is written fails
InitIngest ==
  /\ \E f \in CsvFiles : chaseRows = f[1] /\ gdaRows = f[2]
  /\ response = <<>>
  /\ generated = FALSE
  /\ HomeInit

NextIngest ==
  \/ convertData
  \/ LoadResolve
  \/ LoadReject
  \/ RunEffect

SpecIngest == InitIngest /\ [][NextIngest]_vars

\* the city index over Point Stores with empty, absent and unusual city names
InitIndex == InitWith(IndexStores)

NextIndex ==
  \/ LoadResolve
  \/ LoadReject
  \/ RunEffect

SpecIndex == InitIndex /\ [][NextIndex]_vars

\* the city search over Point Stores of more cities than the limits
InitSearch == InitWith(SearchStores)

NextSearch ==
  \/ LoadResolve
  \/ LoadReject
  \/ \E q \in SearchQueries : TypeQuery(q)
  \/ RunEffect

SpecSearch == InitSearch /\ [][NextSearch]_vars

\* ---------------------------------------------------------------- notions
Range(seq) == {seq[i] : i \in 1..Len(seq)}

\* the flag Filter State holds for a program is not false (an absent flag,
\* undefined, is not false)
FlagNotFalse(f, program) == ~(program \in DOMAIN f /\ f[program] = FALSE)

\* the restaurants of the Point Store whose program's flag is not false
VisibleRefs == {r.ref : r \in {x \in Range(restaurants) :
                                 FlagNotFalse(filters, x.program)}}

\* the marker update effect has run for the current restaurants and filters
MarkersCurrent == clusterGroupRef # "null" /\ "markers" \notin Range(effects)

\* the restaurants the cluster group's markers were made for
LayerRefs == {clusterLayers[k].popup.ref : k \in 1..Len(clusterLayers)}

\* ------------------------------------------------------------------- C1
\* C1: the visible set the marker update filter computes is a subset of the
\* Point Store, and a restaurant is in it if and only if the flag of its
\* program is not false; the markers the effect has put into the cluster
\* group are those of exactly these restaurants.
C1_VisibleSet ==
  LET visible == filtered(restaurants, filters)
  IN  /\ \A i \in 1..Len(visible) : visible[i] \in Range(restaurants)
      /\ \A r \in Range(restaurants) :
           (r \in Range(visible)) <=> FlagNotFalse(filters, r.program)
      /\ MarkersCurrent => LayerRefs = VisibleRefs

\* the effect has run on a store with a chase restaurant that is toggled
\* off and a restaurant of a program without a toggle
C1_Witness ==
  /\ MarkersCurrent
  /\ ~filters.chase
  /\ filters.amex
  /\ \E r \in Range(restaurants) : r.program = "chase"
  /\ \E r \in Range(restaurants) : r.program = "visa"
  /\ Len(clusterLayers) = 1
  /\ clusterLayers[1].popup.program = "visa"

\* ------------------------------------------------------------------- C2
\* the sum of the counts of a sequence of cluster nodes
RECURSIVE sumCounts(_)
sumCounts(nodes) ==
  IF nodes = <<>> THEN 0 ELSE Head(nodes).count + sumCounts(Tail(nodes))

VisibleMarkers ==
  LET visible == SelectSeq(restaurants,
                           LAMBDA r : FlagNotFalse(filters, r.program))
  IN  [i \in 1..Len(visible) |-> marker(visible[i])]

Blank(q) == \A i \in 1..Len(q) : IsWhiteSpace(q[i])

\* two strings are equal up to the case of their letters
EqualCI(s, t) ==
  Len(s) = Len(t) /\ \A i \in 1..Len(s) : Lower(s[i]) = Lower(t[i])

\* name contains q, up to the case of the letters
ContainsCI(name, q) ==
  \E i \in 0..(Len(name) - Len(q)) : EqualCI(SubSeq(name, i + 1, i + Len(q)), q)

\* 0: the name equals the query; 1: it starts with it; 2: it contains it
Tier(c, q) ==
  IF EqualCI(c.name, q) THEN 0
  ELSE IF Len(q) <= Len(c.name) /\ EqualCI(SubSeq(c.name, 1, Len(q)), q) THEN 1
  ELSE 2

Matching(q) == {k \in 1..Len(cities) : ContainsCI(cities[k].name, q)}

Min(a, b) == IF a < b THEN a ELSE b

\* C4: for a non-blank query the result lists the cities named like the
\* query first, then those starting with it, then the others, each tier in
\* descending order of count; a city named like the query comes first.
C4_Ranking ==
  ~Blank(searchQuery) =>
    /\ \A i, j \in 1..Len(filteredCities) :
         i < j =>
           \/ Tier(filteredCities[i], searchQuery)
                < Tier(filteredCities[j], searchQuery)
           \/ /\ Tier(filteredCities[i], searchQuery)
                   = Tier(filteredCities[j], searchQuery)
              /\ filteredCities[i].count >= filteredCities[j].count
    /\ (\E c \in Range(cities) : EqualCI(c.name, searchQuery)) =>
         /\ filteredCities # <<>>
         /\ EqualCI(filteredCities[1].name, searchQuery)

\* a result with all three tiers, in which the city named like the query
\* has a smaller count than a city behind it
C4_Witness ==
  /\ ~Blank(searchQuery)
  /\ Len(filteredCities) >= 3
  /\ {Tier(c, searchQuery) : c \in Range(filteredCities)} = {0, 1, 2}
  /\ \E j \in 2..Len(filteredCities) :
       filteredCities[j].count > filteredCities[1].count

\* C5: for a non-blank query every city of the result is a city of the index
\* whose name contains the query up to case, and a city of the index that
\* contains it is missing only when the result is cut at the limit.
C5_Candidates ==
  ~Blank(searchQuery) =>
    /\ \A c \in Range(filteredCities) :
         c \in Range(cities) /\ ContainsCI(c.name, searchQuery)
    /\ Len(filteredCities) = Min(QUERY_LIMIT, Cardinality(Matching(searchQuery)))
    /\ Len(filteredCities) < QUERY_LIMIT =>
         \A k \in Matching(searchQuery) : cities[k] \in Range(filteredCities)

\* a query in another case than the names it finds, with cities that do not
\* contain it left out and no cut
C5_Witness ==
  /\ searchQuery = <<"a", "B">>
  /\ \E c \in Range(filteredCities) : c.name = <<"A", "b">>
  /\ \E c \in Range(cities) : ~ContainsCI(c.name, searchQuery)
  /\ Len(filteredCities) \in 2..(QUERY_LIMIT - 1)
  /\ Len(filteredCities) < Len(cities)

\* C6: for an empty or white-space query the result is the first
\* DEFAULT_LIMIT cities of the index by count: it has DEFAULT_LIMIT cities,
\* or all of them, and no city outside it has a higher count than one inside.
C6_BlankTop ==
  Blank(searchQuery) =>
    /\ Len(filteredCities) = Min(DEFAULT_LIMIT, Len(cities))
    /\ \A c \in Range(filteredCities) : c \in Range(cities)
    /\ \A c \in Range(filteredCities) :
         \A d \in Range(cities) \ Range(filteredCities) : d.count <= c.count

\* a white-space query on an index of more cities than the limit, whose
\* city of the highest count comes last in the Point Store
C6_Witness ==
  /\ searchQuery = <<" ">>
  /\ Len(cities) > DEFAULT_LIMIT
  /\ Len(filteredCities) = DEFAULT_LIMIT
  /\ filteredCities[1].count = 2
  /\ restaurants[Len(restaurants)].city = filteredCities[1].name

\* the ranked list the result is cut from
FullRanking ==
  IF Blank(searchQuery) THEN cities ELSE rankedMatches(cities, searchQuery)

Limit == IF Blank(searchQuery) THEN DEFAULT_LIMIT ELSE QUERY_LIMIT

\* C7: the result is the ranked list cut at the limit: it is never longer
\* than the limit (20 for a non-blank query, 15 for a blank one) and it is
\* the ranked list's first cities, in the ranked list's order.
C7_Truncation ==
  LET full == FullRanking
  IN  /\ Len(filteredCities) <= Limit
      /\ Len(filteredCities) = Min(Limit, Len(full))
      /\ filteredCities = SubSeq(full, 1, Len(filteredCities))

\* a non-blank query with more matches than the limit, cut at the limit
\* behind cities of a higher and of the same count as the first one cut
C7_Witness ==
  LET full == FullRanking
  IN  /\ ~Blank(searchQuery)
      /\ Len(full) > QUERY_LIMIT
      /\ Len(filteredCities) = QUERY_LIMIT
      /\ filteredCities[1].count > filteredCities[QUERY_LIMIT].count
      /\ full[QUERY_LIMIT + 1].count <= filteredCities[QUERY_LIMIT].count

\* ----------------------------------------------------------- C8 .. C10
\* the characters of the modelled names in the order of their code units
CodeOrder ==
  <<" ", "0", "1", "2", "3", "4", "5", "6", "7", "8", "9", "A", "B", "C",
    "a", "b", "c", "d", "e", "f", "n", "o", "r", "s", "t", "u">>

CharCode(c) == CHOOSE i \in 1..Len(CodeOrder) : CodeOrder[i] = c

\* a < b for two strings, as JavaScript compares them
NameLess(a, b) ==
  \E i \in 1..(Len(a) + 1) :
    /\ i <= Len(b)
    /\ \A k \in 1..(i - 1) : a[k] = b[k]
    /\ i = Len(a) + 1 \/ CharCode(a[i]) < CharCode(b[i])

\* the place of the first restaurant of a city in the Point Store
FirstPos(name) ==
  CHOOSE i \in 1..Len(restaurants) :
    /\ restaurants[i].city = name
    /\ \A j \in 1..(i - 1) : restaurants[j].city # name

\* Object.values lists the aggregate named a before the one named b: names
\* that are array indices first, by their number, then the other names in
\* the order in which the Point Store first has them
ListedBefore(a, b) ==
  IF IsArrayIndex(a) /\ IsArrayIndex(b)
  THEN ArrayIndexValue(a) < ArrayIndexValue(b)
  ELSE IF IsArrayIndex(a) THEN TRUE
  ELSE IF IsArrayIndex(b) THEN FALSE
  ELSE FirstPos(a) < FirstPos(b)

\* C8 as stated: the index is in descending order of count, and cities of
\* equal count are in ascending order of name.
C8_TiesByName ==
  \A i, j \in 1..Len(cities) :
    i < j =>
      \/ cities[i].count > cities[j].count
      \/ /\ cities[i].count = cities[j].count
         /\ NameLess(cities[i].name, cities[j].name)

\* C8 amended: the index is in descending order of count, and cities of
\* equal count keep the order in which Object.values lists them, which for
\* names that are not array indices is the order of their first restaurants
\* in the Point Store.
C8_TiesByFirstSeen ==
  \A i, j \in 1..Len(cities) :
    i < j =>
      \/ cities[i].count > cities[j].count
      \/ /\ cities[i].count = cities[j].count
         /\ ListedBefore(cities[i].name, cities[j].name)

\* an index of two cities of equal count that are in descending order of
\* name, the order of their first restaurants in the Point Store
C8_Witness ==
  /\ Len(restaurants) = 3
  /\ Len(cities) = 2
  /\ cities[1].count = cities[2].count
  /\ NameLess(cities[2].name, cities[1].name)
  /\ ~IsArrayIndex(cities[1].name)
  /\ ~IsArrayIndex(cities[2].name)
  /\ FirstPos(cities[1].name) < FirstPos(cities[2].name)

\* the city values of the Point Store that are neither empty nor absent
NamedCities == {r.city : r \in {x \in Range(restaurants) : Truthy(x.city)}}

RECURSIVE sumCityCounts(_)
sumCityCounts(cs) ==
  IF cs = <<>> THEN 0 ELSE Head(cs).count + sumCityCounts(Tail(cs))

\* C9 as stated: the index has exactly one aggregate for every city value
\* that is neither empty nor absent, the count of an aggregate is the number
\* of restaurants of its city, and the counts sum to the number of
\* restaurants that have a city.
C9_OneAggregatePerCity ==
  /\ {cities[k].name : k \in 1..Len(cities)} = NamedCities
  /\ Len(cities) = Cardinality(NamedCities)
  /\ \A k \in 1..Len(cities) :
       cities[k].count =
         Cardinality({i \in 1..Len(restaurants) :
                        restaurants[i].city = cities[k].name})
  /\ sumCityCounts(cities) =
       Cardinality({i \in 1..Len(restaurants) : Truthy(restaurants[i].city)})

\* C10: the coordinate of every aggregate is the coordinate of the first
\* restaurant of its city in the Point Store, whatever restaurants of the
\* city follow.
C10_FirstCoordinate ==
  \A k \in 1..Len(cities) :
    LET first == restaurants[FirstPos(cities[k].name)]
    IN  cities[k].lat = first.lat /\ cities[k].lon = first.lon

\* a city of three restaurants, the later two at another coordinate than
\* the first
C10_Witness ==
  /\ Len(restaurants) = 3
  /\ Len(cities) = 1
  /\ cities[1].count = 3
  /\ restaurants[2].lat # cities[1].lat
  /\ restaurants[3].lat # cities[1].lat
  /\ restaurants[1].lat = cities[1].lat

\* ------------------------------------------------------------------ C12
\* C12: Filter State starts with both programs visible, and a step that
\* changes it flips the flag of exactly one program and is none of a data
\* load, a change of the search query, a city selection, a completed fly-to
\* or a geolocation request or callback.
C12_OnlyTogglesChangeFilters ==
  /\ filters = [amex |-> TRUE, chase |-> TRUE]
  /\ [][filters' # filters =>
         /\ \E program \in DOMAIN filters :
              filters' = [filters EXCEPT ![program] = ~@]
         /\ fetch' = fetch
         /\ restaurants' = restaurants
         /\ searchQuery' = searchQuery
         /\ flyToLocation' = flyToLocation
         /\ mapView' = mapView
         /\ locateVars' = locateVars]_vars

\* both flags are still on after a load, a typed query, a geolocation
\* success and a later city selection whose fly-to has completed
C12_Witness ==
  /\ filters = [amex |-> TRUE, chase |-> TRUE]
  /\ fetch = "resolved"
  /\ searchQuery # <<>>
  /\ userMarkerRef # <<>>
  /\ flyToLocation = <<>>
  /\ mapView # <<>>
  /\ mapView.zoom = CITY_ZOOM
  /\ mapView.center \notin GeoPositions
  /\ effects = <<>>

\* ------------------------------------------------------------------ C13
\* C13: a restaurant whose program has no flag in Filter State is in the
\* filtered set whatever the flags are, and once the marker update effect
\* has run the cluster group holds its marker.
C13_MissingEntryVisible ==
  \A r \in Range(restaurants) :
    r.program \notin DOMAIN filters =>
      /\ r \in Range(filtered(restaurants, filters))
      /\ MarkersCurrent =>
           \E k \in 1..Len(clusterLayers) : clusterLayers[k].popup = r

\* both flags are off and the only marker is the one of a restaurant of a
\* program without a flag, next to an amex restaurant
C13_Witness ==
  /\ MarkersCurrent
  /\ ~filters.amex
  /\ ~filters.chase
  /\ Len(restaurants) = 2
  /\ restaurants[1].program = "amex"
  /\ restaurants[2].program \notin DOMAIN filters
  /\ Len(clusterLayers) = 1
  /\ clusterLayers[1].popup = restaurants[2]

\* ------------------------------------------------------------------ C14
\* C14: while the fetch is pending the page is loading and Map is not
\* rendered; once the fetch has resolved or rejected loading is false;
\* loading never goes from false to true; and, the fetch settling at some
\* time, loading is eventually false.
C14_Loading ==
  /\ [](fetch = "pending" => loading /\ ~mounted /\ mapInstanceRef = "null")
  /\ [](fetch # "pending" => ~loading)
  /\ [][~loading => ~loading']_vars
  /\ <>(~loading)

\* the fetch has failed, the page has left the loading state and Map is
\* rendered with its map created
C14_Witness ==
  /\ fetch = "rejected"
  /\ ~loading
  /\ mounted
  /\ mapInstanceRef = "map"
  /\ effects = <<>>

\* ------------------------------------------------------------------ C15
\* what the page shows: the state of Home and of Map and the map's layers
pageView ==
  <<restaurants, loading, filters, searchQuery, showSearchResults,
    flyToLocation, cities, filteredCities, mounted, mapInstanceRef,
    clusterLayers, mapView, isLocating, locationError, userMarkerRef>>

\* what the page shows once an empty restaurants.json is loaded and drawn
emptyLoadView ==
  <<<<>>, FALSE, [amex |-> TRUE, chase |-> TRUE], <<>>, FALSE, <<>>, <<>>,
    <<>>, TRUE, "map", <<>>, [center |-> <<40, -99>>, zoom |-> INITIAL_ZOOM],
    FALSE, <<>>, <<>>>>

\* C15 as stated: after a failed load the page shows a failure state, which
\* differs from what it shows after the load of a file without restaurants.
C15_FailureState == fetch = "rejected" => pageView # emptyLoadView

\* ------------------------------------------------------------------ C16
\* C16: at most one geolocation request is outstanding, and one is exactly
\* while isLocating is true, which disables the locate button; a step that
\* starts a request sets isLocating and clears locationError; the error
\* callback ends with isLocating false and a message in locationError, the
\* success callback with isLocating false and no message.
C16_Locating ==
  /\ [](/\ geolocation \in {0, 1}
        /\ geolocation = 1 <=> isLocating
        /\ isLocating => locateDisabled)
  /\ [][geolocation' > geolocation =>
         ~isLocating /\ isLocating' /\ locationError' = <<>>]_vars
  /\ [][locateError => ~isLocating' /\ locationError' # <<>>]_vars
  /\ [][(\E position \in GeoPositions : locateSuccess(position)) =>
         ~isLocating' /\ locationError' = <<>>]_vars

\* a request has failed after an earlier one had succeeded
C16_Witness ==
  /\ ~isLocating
  /\ geolocation = 0
  /\ locationError # <<>>
  /\ userMarkerRef # <<>>

\* ------------------------------------------------------------------ C17
\* C17 as stated: every restaurant of the Point Store has a latitude in
\* [-90, 90] and a longitude in [-180, 180].
C17_ValidCoordinates ==
  \A i \in 1..Len(restaurants) :
    /\ restaurants[i].lat \in -90..90
    /\ restaurants[i].lon \in -180..180

\* ------------------------------------------------------------------ C18
\* C18: the Point Store is empty until the fetch resolves and is the loaded
\* data from then on: the only step that changes it is the first and only
\* load, and every toggle, query, city selection, fly-to, effect and
\* geolocation step leaves it as it is, order and entities included.
C18_StoreReadOnly ==
  /\ [](IF fetch = "resolved" THEN restaurants = response
                              ELSE restaurants = <<>>)
  /\ [][restaurants' # restaurants =>
         /\ restaurants = <<>>
         /\ fetch = "pending"
         /\ fetch' = "resolved"
         /\ restaurants' = response]_vars

\* the loaded store after a toggle that hides its restaurant, a typed
\* query, a geolocation success and a redraw of the markers
C18_Witness ==
  /\ fetch = "resolved"
  /\ Len(restaurants) = 1
  /\ restaurants[1].program = "amex"
  /\ ~filters.amex
  /\ searchQuery # <<>>
  /\ userMarkerRef # <<>>
  /\ MarkersCurrent
  /\ clusterLayers = <<>>
  /\ effects = <<>>

\* ------------------------------------------------------------------ C19
\* C19: a step that sets the fly-to target is the selection of a city of
\* the result list: the target is that city's latitude and longitude and
\* zoom CITY_ZOOM, and the step changes neither the Point Store nor Filter
\* State; the fly-to effect that consumes a target sends the map to exactly
\* its latitude, longitude and zoom.
C19_ResolveTarget ==
  /\ [][flyToLocation' # flyToLocation /\ flyToLocation' # <<>> =>
         /\ \E c \in Range(filteredCities) :
              /\ searchQuery' = c.name
              /\ flyToLocation' =
                   <<[lat |-> c.lat, lon |-> c.lon, zoom |-> CITY_ZOOM]>>
         /\ restaurants' = restaurants
         /\ filters' = filters]_vars
  /\ [][flyToLocation # <<>> /\ flyToLocation' = <<>> =>
         mapView' = [center |-> <<flyToLocation[1].lat, flyToLocation[1].lon>>,
                     zoom |-> flyToLocation[1].zoom]]_vars
  /\ [](flyToLocation # <<>> => flyToLocation[1].zoom = CITY_ZOOM)

\* the map has been sent to the second of two cities of the index, whose
\* latitude and longitude differ from those of the first
C19_Witness ==
  /\ Len(cities) = 2
  /\ searchQuery = cities[2].name
  /\ flyToLocation = <<>>
  /\ mapView # <<>>
  /\ mapView.center = <<cities[2].lat, cities[2].lon>>
  /\ mapView.center # <<cities[1].lat, cities[1].lon>>
  /\ mapView.zoom = CITY_ZOOM
  /\ effects = <<>>

\* ------------------------------------------------------------------ C20
\* C20: the filtered set lists restaurants of the Point Store in Point
\* Store order, each as the store holds it, and so do the markers the
\* effect made of it; the store is the loaded data, as it was before the
\* filtering.
C20_OrderPreserved ==
  LET visible == filtered(restaurants, filters)
  IN  /\ \A i \in 1..Len(visible) :
           /\ visible[i].ref \in 1..Len(restaurants)
           /\ visible[i] = restaurants[visible[i].ref]
      /\ \A i, j \in 1..Len(visible) :
           i < j => visible[i].ref < visible[j].ref
      /\ MarkersCurrent =>
           /\ Len(clusterLayers) = Len(visible)
           /\ \A k \in 1..Len(clusterLayers) :
                clusterLayers[k].popup = visible[k]
      /\ fetch = "resolved" => restaurants = response
      /\ \A i \in 1..Len(restaurants) : restaurants[i].ref = i

\* two restaurants of different programs, both visible again after one of
\* them had been hidden, with their markers in Point Store order
C20_Witness ==
  /\ MarkersCurrent
  /\ effects = <<>>
  /\ Len(restaurants) = 2
  /\ restaurants[1].program # restaurants[2].program
  /\ restaurants[1].city # restaurants[2].city
  /\ Len(clusterLayers) = 2
  /\ clusterLayers[1].popup = restaurants[1]
  /\ clusterLayers[2].popup = restaurants[2]
  /\ searchQuery # <<>>

\* ------------------------------------------------------------------ C21
\* C21 as stated: every restaurant of the Point Store has a name that is
\* not empty, whatever its program.
C21_NamesNonEmpty ==
  \A i \in 1..Len(restaurants) : restaurants[i].name # <<>>

\* ------------------------------------------------------------------ C22
\* C22: a city selection sets the fly-to target to the coordinates of the
\* city and zoom 12 while the map exists, and the step after it is the
\* fly-to effect, which calls flyTo with that target once and resets the
\* target to null; flyTo is called at no other step, and a selection of
\* the city the map already shows calls it again.
C22_OneFlyToPerSelection ==
  /\ [](flyToLocation # <<>> =>
          /\ mounted
          /\ mapInstanceRef = "map"
          /\ effects = <<"fly">>)
  /\ [][(\E i \in 1..QUERY_LIMIT : handleCitySelect(i)) =>
         /\ flyToLocation = <<>>
         /\ \E i \in 1..Len(filteredCities) :
              /\ searchQuery' = filteredCities[i].name
              /\ flyToLocation' = <<[lat |-> filteredCities[i].lat,
                                     lon |-> filteredCities[i].lon,
                                     zoom |-> 12]>>]_vars
  /\ [][flyToLocation # <<>> =>
         /\ flyToCall' = <<[center |-> <<flyToLocation[1].lat,
                                         flyToLocation[1].lon>>,
                            zoom |-> 12]>>
         /\ mapView' = flyToCall'[1]
         /\ flyToLocation' = <<>>]_vars
  /\ [][flyToCall' # <<>> => flyToLocation # <<>>]_vars
  /\ [](flyToCall # <<>> => flyToLocation = <<>>)

\* the city the map was flown to is selected again: the target is set and
\* the view is already the one flyTo is about to be called with
C22_Witness ==
  /\ flyToLocation # <<>>
  /\ mapView = flyTo(flyToLocation[1])
  /\ effects = <<"fly">>
  /\ searchQuery # <<>>

\* ------------------------------------------------------------------ C23
\* C23 as stated: the success callback of a geolocation request never
\* dereferences a map reference that is null, whenever the request and the
\* unmounting of Map are interleaved.
C23_NoNullDereference == ~uncaught

C24_CountEqualsMarkers ==
  /\ visibleCount(restaurants, filters)
       = Len(markers(filtered(restaurants, filters)))
  /\ MarkersCurrent => visibleCount(restaurants, filters) = Len(clusterLayers)

\* ------------------------------------------------------------------ C26
\* C26: the map holds at most one user-location marker, the one the marker
\* reference points to; a success callback on a live map leaves exactly the
\* marker of the new position, and a failure callback leaves the markers
\* and the reference as they were.
C26_OneUserMarker ==
  /\ [](Len(userLayers) <= 1)
  /\ [](mapInstanceRef = "map" => userLayers = userMarkerRef)
  /\ [][\A position \in GeoPositions :
          locateSuccess(position) /\ mapInstanceRef = "map" =>
            userLayers' = <<position>>]_vars
  /\ [][locateError =>
          userLayers' = userLayers /\ userMarkerRef' = userMarkerRef]_vars

\* a request failed after one that succeeded: the error is shown and the
\* marker of the success is the only one on the map
C26_Witness ==
  /\ userLayers = <<<<48, 2>>>>
  /\ userMarkerRef = <<<<48, 2>>>>
  /\ mapInstanceRef = "map"
  /\ locationError # <<>>

ValidRow(row) ==
  LET lat == parseFloat(row.lat)
      lon == parseFloat(row.lon)
  IN  /\ lat # NaN
      /\ lon # NaN
      /\ lat[1] \in -90..90
      /\ lon[1] \in -180..180

\* a row that has a name in one of its two name columns
NamedRow(row) == row.name # <<>> \/ row.google_name # <<>>

\* the rows of a file the claim has kept
ValidRows(rows) == SelectSeq(rows, LAMBDA row : ValidRow(row) /\ NamedRow(row))

\* the records of a program in the generated file
RecordsOf(program) == SelectSeq(response, LAMBDA r : r.program = program)

\* C28 as stated, for the rows that have a name: once the file is written,
\* every valid row of either CSV file has its record in it, a latitude of 0
\* included, the Chase records come before the Amex records, and the file
\* has as many records as the two lists together.
C28_KeepsValidRows ==
  generated =>
    /\ \A i \in 1..Len(ValidRows(chaseRows)) :
         /\ i <= Len(RecordsOf("chase"))
         /\ RecordsOf("chase")[i].lat = parseFloat(ValidRows(chaseRows)[i].lat)[1]
         /\ RecordsOf("chase")[i].lon = parseFloat(ValidRows(chaseRows)[i].lon)[1]
    /\ \A i \in 1..Len(ValidRows(gdaRows)) :
         /\ i <= Len(RecordsOf("amex"))
         /\ RecordsOf("amex")[i].lat = parseFloat(ValidRows(gdaRows)[i].lat)[1]
         /\ RecordsOf("amex")[i].lon = parseFloat(ValidRows(gdaRows)[i].lon)[1]
    /\ \A i, j \in 1..Len(response) :
         i < j => ~(response[i].program = "amex" /\ response[j].program = "chase")
    /\ Len(response) = Len(chaseData(chaseRows)) + Len(gdaData(gdaRows))

====
